---- MODULE Spec2Model ----
(***************************************************************************)
(* Model of the meal planner (src/meal_planner/meal_planner.py): the       *)
(* allocation strategies, the standard and senior daily plan generators,   *)
(* the recipe filter and the handler generate_monthly_plan from the        *)
(* request body to the response, alone and beside a concurrent request.    *)
(*                                                                         *)
(* Text is modelled as a sequence of one-character strings, so that        *)
(* strip(), lower(), split(",") and the quantity-stripping regular         *)
(* expression are computed character by character as Python computes them. *)
(* Quantities are natural numbers of stock units; a serving is `unit`      *)
(* stock units (1 where the sheets hold whole servings, 2 where they hold  *)
(* half servings: the loaders keep the numbers of the sheet as they are).  *)
(***************************************************************************)
EXTENDS Integers, Sequences, FiniteSets, TLC

(***************************************************************************)
(* Bounds of the model.                                                    *)
(***************************************************************************)
\* largest stock of one ledger entry in an initial ledger
MaxStock == 2
\* largest total stock of an initial main ledger (monthly run)
MaxMainTotal == 3
\* largest total stock of an initial box ledger (monthly run)
MaxBoxTotal == 2
\* largest `needed` argument of a direct allocation call
MaxNeeded == 3

(***************************************************************************)
(* Text helpers.                                                           *)
(***************************************************************************)
Min(a, b) == IF a <= b THEN a ELSE b

Max(a, b) == IF a >= b THEN a ELSE b

Upper == <<"A","B","C","D","E","F","G","H","I","J","K","L","M",
           "N","O","P","Q","R","S","T","U","V","W","X","Y","Z">>

Lower == <<"a","b","c","d","e","f","g","h","i","j","k","l","m",
           "n","o","p","q","r","s","t","u","v","w","x","y","z">>

UpperIndex == [c \in {Upper[k] : k \in 1..26} |-> CHOOSE k \in 1..26 : Upper[k] = c]

\* str.lower() on one character
LowerChar(c) == IF c \in DOMAIN UpperIndex THEN Lower[UpperIndex[c]] ELSE c

\* str.lower()
lower(s) == [k \in 1..Len(s) |-> LowerChar(s[k])]

IsSpace(c) == c = " "

IsDigit(c) == c \in {"0","1","2","3","4","5","6","7","8","9"}

RECURSIVE lstrip(_)
lstrip(s) == IF s # <<>> /\ IsSpace(Head(s)) THEN lstrip(Tail(s)) ELSE s

RECURSIVE rstrip(_)
rstrip(s) ==
    IF s # <<>> /\ IsSpace(s[Len(s)]) THEN rstrip(SubSeq(s, 1, Len(s) - 1)) ELSE s

\* str.strip()
strip(s) == rstrip(lstrip(s))

\* index of the first non-space character at or after k (Len(s)+1 if none)
RECURSIVE SkipSpaces(_, _)
SkipSpaces(s, k) ==
    IF k <= Len(s) /\ IsSpace(s[k]) THEN SkipSpaces(s, k + 1) ELSE k

\* the regular expression \s+\d+.*$ matches at position k
QuantityAt(s, k) ==
    /\ k <= Len(s)
    /\ IsSpace(s[k])
    /\ SkipSpaces(s, k) <= Len(s)
    /\ IsDigit(s[SkipSpaces(s, k)])

\* re.sub(r"\s+\d+.*$", "", s): cut at the leftmost match
sub_quantity(s) ==
    IF \E k \in 1..Len(s) : QuantityAt(s, k)
    THEN SubSeq(s, 1, (CHOOSE k \in 1..Len(s) :
                         /\ QuantityAt(s, k)
                         /\ \A j \in 1..(k - 1) : ~QuantityAt(s, j)) - 1)
    ELSE s

\* str.split(","): the pieces between commas, empty pieces included
RECURSIVE split_comma(_, _, _)
split_comma(s, k, cur) ==
    IF k > Len(s) THEN <<cur>>
    ELSE IF s[k] = "," THEN <<cur>> \o split_comma(s, k + 1, <<>>)
    ELSE split_comma(s, k + 1, Append(cur, s[k]))

RECURSIVE FilterNonEmpty(_)
FilterNonEmpty(ss) ==
    IF ss = <<>> THEN <<>>
    ELSE IF strip(Head(ss)) # <<>>
         THEN <<strip(Head(ss))>> \o FilterNonEmpty(Tail(ss))
         ELSE FilterNonEmpty(Tail(ss))

\* [i.strip() for i in str(ingredients).split(",") if i.strip()]
raw_ingredients_of(ingredients) == FilterNonEmpty(split_comma(ingredients, 1, <<>>))

LowerIndex == [c \in {Lower[k] : k \in 1..26} |-> CHOOSE k \in 1..26 : Lower[k] = c]

\* str.upper()
upper(s) ==
    [k \in 1..Len(s) |-> IF s[k] \in DOMAIN LowerIndex THEN Upper[LowerIndex[s[k]]] ELSE s[k]]

\* t in s (substring test)
Contains(s, t) ==
    \E k \in 1..(Len(s) - Len(t) + 1) : SubSeq(s, k, k + Len(t) - 1) = t

DigitChars == <<"0","1","2","3","4","5","6","7","8","9">>

DigitValue == [c \in {DigitChars[k] : k \in 1..10} |-> (CHOOSE k \in 1..10 : DigitChars[k] = c) - 1]

\* int of a decimal literal
RECURSIVE ParseInt(_)
ParseInt(s) ==
    IF s = <<>> THEN 0
    ELSE 10 * ParseInt(SubSeq(s, 1, Len(s) - 1)) + DigitValue[s[Len(s)]]

\* repr of a non-negative int
RECURSIVE Repr(_)
Repr(n) ==
    IF n < 10 THEN <<DigitChars[n + 1]>>
    ELSE Repr(n \div 10) \o <<DigitChars[(n % 10) + 1]>>

(***************************************************************************)
(* Program constants.                                                      *)
(***************************************************************************)
NoCategory == "None"

\* CATEGORY_MAP.get(label)
CATEGORY_MAP(label) ==
    CASE label = "seasonal & local fruits/vegetables" -> "fruit_veg"
      [] label = "milk & dairy" -> "dairy"
      [] label = "meat/fish/eggs/pulses" -> "protein"
      [] label = "grains" -> "cereal"
      [] label = "oil" -> "oil"
      [] label = "misc" -> "misc"
      [] OTHER -> NoCategory

\* the categories of MEAL_REQUIREMENT, in the dict's iteration order
MEAL_CATEGORIES == <<"fruit_veg", "cereal", "dairy", "protein", "oil", "misc">>

MEAL_REQUIREMENT(cat) ==
    CASE cat = "fruit_veg" -> 2
      [] cat = "cereal" -> 1
      [] cat = "dairy" -> 0
      [] cat = "protein" -> 1
      [] cat = "oil" -> 1
      [] cat = "misc" -> 2

Categories == {MEAL_CATEGORIES[k] : k \in 1..Len(MEAL_CATEGORIES)}

SaltPepper == <<"S","a","l","t","/","P","e","p","p","e","r">>

Sugar == <<"S","u","g","a","r">>

Chocolates == <<"C","h","o","c","o","l","a","t","e","s">>

Honey == <<"M","i","l","l","e","f","i","o","r","i"," ","h","o","n","e","y",
           " ","5","0","0"," ","g">>

MISC_PRIORITY == <<SaltPepper, Sugar, Chocolates, Honey>>

(***************************************************************************)
(* Allocation strategies.  A ledger is a sequence of entries               *)
(* [item_name, category, servings_available]; an operation returns the     *)
(* records it produced (used), the unmet remainder (needed) and the        *)
(* ledger(s) as its in-place updates leave them.                           *)
(***************************************************************************)
AllocationRecord(name, category, take, source) ==
    [item_name |-> name, category |-> category,
     servings_used |-> take, source |-> source]

\* line 133 (152, 297) left out: the entry keeps its stock
Deplete_none(inventory, k, take) == inventory

Deplete(inventory, k, take) ==
    [inventory EXCEPT ![k].servings_available = @ - take]

\* allocate_specific_item, line 120: the loop stops once nothing is needed
specific_done_nonneg(needed) == needed < 0

specific_done(needed) == needed <= 0

\* allocate_specific_item, lines 122-124
specific_match(item, item_name, category) ==
    /\ item.category = category
    /\ lower(strip(item.item_name)) = lower(strip(item_name))
    /\ item.servings_available > 0

\* allocate_specific_item, line 126
specific_take_needed(item, needed) == needed

specific_take(item, needed) == Min(item.servings_available, needed)

RECURSIVE specific_loop(_, _, _, _, _, _)
specific_loop(inventory, item_name, category, needed, k, used) ==
    IF k > Len(inventory) \/ specific_done(needed)
    THEN [used |-> used, needed |-> needed, inventory |-> inventory]
    ELSE IF specific_match(inventory[k], item_name, category)
         THEN LET take == specific_take(inventory[k], needed) IN
              specific_loop(Deplete(inventory, k, take), item_name, category,
                            needed - take, k + 1,
                            Append(used, AllocationRecord(inventory[k].item_name,
                                                          category, take, "main")))
         ELSE specific_loop(inventory, item_name, category, needed, k + 1, used)

allocate_specific_item(inventory, item_name, category, needed) ==
    specific_loop(inventory, item_name, category, needed, 1, <<>>)

\* allocate_category, line 145
category_take_all(item, needed) == item.servings_available

category_take(item, needed) == Min(item.servings_available, needed)

\* allocate_category, lines 141-153: the scan of a non-misc category
RECURSIVE category_loop(_, _, _, _, _)
category_loop(inventory, category, needed, k, used) ==
    IF k > Len(inventory) \/ needed <= 0
    THEN [used |-> used, needed |-> needed, inventory |-> inventory]
    ELSE IF inventory[k].category = category /\ inventory[k].servings_available > 0
         THEN LET take == category_take(inventory[k], needed) IN
              category_loop(Deplete(inventory, k, take), category, needed - take,
                            k + 1,
                            Append(used, AllocationRecord(inventory[k].item_name,
                                                          category, take, "main")))
         ELSE category_loop(inventory, category, needed, k + 1, used)

\* allocate_category, lines 155-159: the misc priority list.  The break at
\* line 158 comes after the call, so the first call is made whatever needed is.
RECURSIVE misc_loop(_, _, _, _, _)
misc_loop(inventory, category, needed, k, used) ==
    IF k > Len(MISC_PRIORITY)
    THEN [used |-> used, needed |-> needed, inventory |-> inventory]
    ELSE LET r == allocate_specific_item(inventory, MISC_PRIORITY[k], category, needed) IN
         IF r.needed <= 0
         THEN [used |-> used \o r.used, needed |-> r.needed, inventory |-> r.inventory]
         ELSE misc_loop(r.inventory, category, r.needed, k + 1, used \o r.used)

allocate_category_plain(inventory, category, needed) ==
    category_loop(inventory, category, needed, 1, <<>>)

allocate_category(inventory, category, needed) ==
    IF category # "misc"
    THEN category_loop(inventory, category, needed, 1, <<>>)
    ELSE misc_loop(inventory, category, needed, 1, <<>>)

(***************************************************************************)
(* Senior strategies: two ledgers, box and main.                           *)
(***************************************************************************)
allocate_senior_item(box, main, item_name, category, needed) ==
    LET b == allocate_specific_item(box, item_name, category, needed) IN
    IF b.needed > 0
    THEN LET m == allocate_specific_item(main, item_name, category, b.needed) IN
         [used |-> b.used \o m.used, needed |-> m.needed,
          box |-> b.inventory, main |-> m.inventory]
    ELSE [used |-> b.used, needed |-> b.needed, box |-> b.inventory, main |-> main]

\* line 290 taking one unit of an entry whatever is needed
senior_take_single(item, needed) == 1

\* allocate_senior_category, line 290
senior_take(item, needed) == Min(item.servings_available, needed)

\* allocate_senior_category, lines 286-298: the scan of the box
RECURSIVE senior_box_loop(_, _, _, _, _)
senior_box_loop(box, category, needed, k, used) ==
    IF k > Len(box) \/ needed <= 0
    THEN [used |-> used, needed |-> needed, inventory |-> box]
    ELSE IF box[k].category = category /\ box[k].servings_available > 0
         THEN LET take == senior_take(box[k], needed) IN
              senior_box_loop(Deplete(box, k, take), category, needed - take, k + 1,
                              Append(used, AllocationRecord(box[k].item_name,
                                                            category, take, "box")))
         ELSE senior_box_loop(box, category, needed, k + 1, used)

\* lines 303-304: every record of the main call is tagged "main"
TagMain(used) == [k \in 1..Len(used) |-> [used[k] EXCEPT !.source = "main"]]

allocate_senior_category(box, main, category, needed) ==
    LET b == senior_box_loop(box, category, needed, 1, <<>>) IN
    IF b.needed > 0
    THEN LET m == allocate_category(main, category, b.needed) IN
         [used |-> b.used \o TagMain(m.used), needed |-> m.needed,
          box |-> b.inventory, main |-> m.inventory]
    ELSE [used |-> b.used, needed |-> b.needed, box |-> b.inventory, main |-> main]

\* allocate_senior_misc, lines 312-316: the state after the first k names of
\* MISC_PRIORITY (the break at line 313 comes before the call)
RECURSIVE senior_misc_prefix(_, _, _, _)
senior_misc_prefix(box, main, needed, k) ==
    IF k = 0
    THEN [used |-> <<>>, needed |-> needed, box |-> box, main |-> main]
    ELSE LET p == senior_misc_prefix(box, main, needed, k - 1) IN
         IF p.needed <= 0 THEN p
         ELSE LET r == allocate_senior_item(p.box, p.main, MISC_PRIORITY[k],
                                            "misc", p.needed) IN
              [used |-> p.used \o r.used, needed |-> r.needed,
               box |-> r.box, main |-> r.main]

allocate_senior_misc(box, main, needed) ==
    senior_misc_prefix(box, main, needed, Len(MISC_PRIORITY))

(***************************************************************************)
(* The request: the JSON body is a function from the keys it holds to      *)
(* their values; Profile, Physical and Cultural fill in the defaults of    *)
(* the models of lines 20-33.                                              *)
(***************************************************************************)
\* Python's None, for an optional block
None == [is_none |-> TRUE]

\* a null activity_level
Null == "null"

\* Physical(**d)
Physical(d) ==
    [activity_level |-> IF "activity_level" \in DOMAIN d THEN d.activity_level
                        ELSE "moderate"]

\* Cultural(**d); a diet_type of None is the empty list (both are falsy at
\* line 170, the only place that reads it)
Cultural(d) ==
    [diet_type |-> IF "diet_type" \in DOMAIN d THEN d.diet_type ELSE <<>>]

\* Profile(**data) raises ValidationError without an age
profile_valid(data) == "age" \in DOMAIN data

Profile(data) ==
    [age |-> data.age,
     month |-> IF "month" \in DOMAIN data THEN data.month ELSE 1,
     physical |-> IF "physical" \in DOMAIN data THEN Physical(data.physical) ELSE None,
     cultural |-> IF "cultural" \in DOMAIN data THEN Cultural(data.cultural) ELSE None]

(***************************************************************************)
(* filter_recipes.  A Nutrition value is text (type "str"), a mapping      *)
(* (type "dict"), a number (type "int") or an empty cell (type "float",    *)
(* NaN).  The texts are dict literals {'calories': N}, int literals N,     *)
(* set literals {N}, or text that is no Python literal.                    *)
(***************************************************************************)
CaloriesPrefix == <<"{","'","c","a","l","o","r","i","e","s","'",":"," ">>

\* the text between the key and the closing brace
literal_body(text) == SubSeq(text, Len(CaloriesPrefix) + 1, Len(text) - 1)

\* the text is a dict literal {'calories': N}
is_dict_literal(text) ==
    /\ Len(text) > Len(CaloriesPrefix) + 1
    /\ SubSeq(text, 1, Len(CaloriesPrefix)) = CaloriesPrefix
    /\ text[Len(text)] = "}"
    /\ \A k \in 1..Len(literal_body(text)) : IsDigit(literal_body(text)[k])

\* the text is an int literal
is_int_literal(text) ==
    /\ text # <<>>
    /\ \A k \in 1..Len(text) : IsDigit(text[k])

\* the text is a set literal {N}
is_set_literal(text) ==
    /\ Len(text) > 2
    /\ text[1] = "{"
    /\ text[Len(text)] = "}"
    /\ is_int_literal(SubSeq(text, 2, Len(text) - 1))

\* ast.literal_eval(text) does not raise
literal_ok(text) ==
    is_dict_literal(text) \/ is_int_literal(text) \/ is_set_literal(text)

\* ast.literal_eval(text) for a text that parses: the value of the literal
literal_eval(text) ==
    IF is_dict_literal(text)
    THEN [type |-> "dict", value |-> [calories |-> ParseInt(literal_body(text))]]
    ELSE IF is_set_literal(text)
    THEN [type |-> "set", value |-> {ParseInt(SubSeq(text, 2, Len(text) - 1))}]
    ELSE [type |-> "int", value |-> ParseInt(text)]

\* lines 181-192: the calories the filter sees; .get on a value that is no
\* dict raises inside the try
calories_of(nutrition) ==
    IF nutrition.type = "str"
    THEN IF literal_ok(nutrition.text) /\ literal_eval(nutrition.text).type = "dict"
         THEN literal_eval(nutrition.text).value.calories
         ELSE 0
    ELSE IF nutrition.type = "dict" THEN nutrition.value.calories
    ELSE 0

\* lines 367 and 369
ZeroNutrition ==
    [type |-> "dict",
     value |-> [calories |-> 0, carbs_g |-> 0, protein_g |-> 0, sugar_g |-> 0]]

\* lines 362-369 (435-442): the nutrition field of the plan
plan_nutrition(nutrition) ==
    IF nutrition.type = "str"
    THEN IF literal_ok(nutrition.text) THEN literal_eval(nutrition.text)
         ELSE ZeroNutrition
    ELSE IF nutrition.type # "dict" THEN ZeroNutrition
    ELSE nutrition

\* jsonify (line 520) can encode the plans: a set is not JSON serializable
json_serializable(plans) ==
    \A d \in 1..Len(plans) : plans[d].nutrition.type # "set"

\* lines 169-177
cultural_match(recipe, cultural) ==
    IF cultural # None /\ cultural.diet_type # <<>>
    THEN \E k \in 1..Len(cultural.diet_type) :
             Contains(lower(recipe.Categories), lower(cultural.diet_type[k]))
    ELSE TRUE

\* lines 195-200 with the band of moderate closed at both ends
activity_match_closed(activity_level, calories) ==
    IF activity_level = "low" /\ calories > 350 THEN FALSE
    ELSE IF activity_level = "moderate" /\ ~(350 <= calories /\ calories <= 500) THEN FALSE
    ELSE IF activity_level = "high" /\ calories <= 500 THEN FALSE
    ELSE TRUE

\* lines 195-200: FALSE where the loop continues
activity_match(activity_level, calories) ==
    IF activity_level = "low" /\ calories > 350 THEN FALSE
    ELSE IF activity_level = "moderate" /\ ~(350 < calories /\ calories <= 500) THEN FALSE
    ELSE IF activity_level = "high" /\ calories <= 500 THEN FALSE
    ELSE TRUE

\* line 180: the calorie filter applies
physical_given(physical) ==
    /\ physical # None
    /\ physical.activity_level # Null
    /\ physical.activity_level # ""

\* lines 167-202 for one recipe
recipe_passes(recipe, physical, cultural) ==
    /\ cultural_match(recipe, cultural)
    /\ physical_given(physical)
           => activity_match(physical.activity_level, calories_of(recipe.Nutrition))

RECURSIVE filter_recipes(_, _, _)
filter_recipes(recipes, physical, cultural) ==
    IF recipes = <<>> THEN <<>>
    ELSE IF recipe_passes(Head(recipes), physical, cultural)
         THEN <<Head(recipes)>> \o filter_recipes(Tail(recipes), physical, cultural)
         ELSE filter_recipes(Tail(recipes), physical, cultural)

\* lines 207-216
get_recipe_file(age) ==
    IF age >= 60 THEN "/app/data/data_set/senior.xlsx"
    ELSE IF age >= 18 THEN "/app/data/data_set/adult.xlsx"
    ELSE IF age >= 10 THEN "/app/data/data_set/teen.xlsx"
    ELSE "/app/data/data_set/kid.xlsx"

\* line 232 without the - 1
get_senior_box_cycle_plain(month) == IF month = 0 THEN 1 ELSE (month % 3) + 1

\* lines 228-232; a month of None is 0 here
get_senior_box_cycle(month) == IF month = 0 THEN 1 ELSE ((month - 1) % 3) + 1

(***************************************************************************)
(* Inputs: the reference table, the stock rows and the recipes a run loads. *)
(***************************************************************************)
Coffee == <<"C","o","f","f","e","e">>

Rice == <<"R","i","c","e">>

Milk == <<"M","i","l","k">>

Tea == <<"T","e","a">>

Tofu == <<"T","o","f","u">>

SUGAR == <<"S","U","G","A","R">>

\* rows of the food category reference sheet
FoodReference ==
    << [item_name |-> Rice, item_category |-> "grains"],
       [item_name |-> Sugar, item_category |-> "misc"],
       [item_name |-> SaltPepper, item_category |-> "misc"],
       [item_name |-> Coffee, item_category |-> "misc"],
       [item_name |-> Milk, item_category |-> "milk & dairy"],
       [item_name |-> Tea, item_category |-> "beverages"] >>

\* load_food_reference: keys are the stripped, lower-cased item names
ref_map ==
    [key \in {lower(strip(FoodReference[k].item_name)) : k \in 1..Len(FoodReference)} |->
        FoodReference[CHOOSE k \in 1..Len(FoodReference) :
                          lower(strip(FoodReference[k].item_name)) = key].item_category]

ref_map_has(key) == key \in DOMAIN ref_map

\* ref_map.get(key, "")
ref_map_get(key) == IF key \in DOMAIN ref_map THEN ref_map[key] ELSE ""

\* load_inventory_items / load_senior_box_items: the rows whose name is in the
\* reference table under a mapped category become ledger entries
RECURSIVE load_items(_)
load_items(rows) ==
    IF rows = <<>> THEN <<>>
    ELSE LET name == strip(Head(rows).item_name)
             category == CATEGORY_MAP(ref_map_get(lower(name)))
         IN  IF ref_map_has(lower(name)) /\ category # NoCategory
             THEN <<[item_name |-> name, category |-> category,
                     servings_available |-> Head(rows).quantity]>>
                      \o load_items(Tail(rows))
             ELSE load_items(Tail(rows))

RECURSIVE SumSeq(_)
SumSeq(q) == IF q = <<>> THEN 0 ELSE Head(q) + SumSeq(Tail(q))

Rows(names, stock) == [k \in 1..Len(names) |-> [item_name |-> names[k], quantity |-> stock[k]]]

\* the stock sheets: fixed rows, every quantity up to MaxStock, bounded total
Sheets(names, total) ==
    {Rows(names, stock) : stock \in {q \in [1..Len(names) -> 0..MaxStock] : SumSeq(q) <= total}}

\* Sugar precedes Salt/Pepper in the sheet, Tea is dropped by the loader
MainNames == <<Sugar, SaltPepper, Coffee, Rice>>

BoxNames == <<SUGAR, Rice>>

IngredientsA == <<"R","i","c","e"," ","2","0","0","g">>

IngredientsB == <<"S","u","g","a","r",","," ","T","o","f","u">>

IngredientsC == <<" ","R","I","C","E"," ",",","T","e","a",",">>

Vegan == <<"V","e","g","a","n">>

Vegetarian == <<"V","e","g","e","t","a","r","i","a","n">>

HalalVegetarian == <<"H","a","l","a","l",","," ">> \o Vegetarian

Kosher == <<"k","o","s","h","e","r">>

\* a Nutrition cell holding the dict literal {'calories': c}
NutritionText(c) == [type |-> "str", text |-> CaloriesPrefix \o Repr(c) \o <<"}">>]

\* an empty Nutrition cell (NaN)
NutritionEmpty == [type |-> "float"]

RecipeA == [Title |-> "A", Ingredients |-> IngredientsA,
            Categories |-> Vegan, Nutrition |-> NutritionText(350)]

RecipeB == [Title |-> "B", Ingredients |-> IngredientsB,
            Categories |-> HalalVegetarian, Nutrition |-> NutritionText(500)]

RecipeC == [Title |-> "C", Ingredients |-> IngredientsC,
            Categories |-> Vegetarian, Nutrition |-> NutritionText(600)]

\* the recipe catalog of every age bracket
Catalog == <<RecipeA, RecipeB, RecipeC>>

\* a catalog with every kind of Nutrition value: a mapping, the text of a
\* mapping, the text of a number, text that is no literal, an empty cell
NutritionCatalog ==
    << [Title |-> "D", Ingredients |-> IngredientsA, Categories |-> Vegan,
        Nutrition |-> [type |-> "dict", value |-> [calories |-> 350]]],
       [Title |-> "E", Ingredients |-> IngredientsB, Categories |-> Vegan,
        Nutrition |-> NutritionText(350)],
       [Title |-> "F", Ingredients |-> IngredientsC, Categories |-> Vegan,
        Nutrition |-> [type |-> "str", text |-> Repr(350)]],
       [Title |-> "G", Ingredients |-> IngredientsA, Categories |-> Vegan,
        Nutrition |-> [type |-> "str", text |-> <<"n", "/", "a">>]],
       [Title |-> "H", Ingredients |-> IngredientsB, Categories |-> Vegan,
        Nutrition |-> NutritionEmpty] >>

\* that catalog, and that catalog with a recipe whose Nutrition is the text
\* of a set
NutritionCatalogs ==
    { NutritionCatalog,
      Append(NutritionCatalog,
             [Title |-> "I", Ingredients |-> IngredientsC, Categories |-> Vegan,
              Nutrition |-> [type |-> "str", text |-> <<"{", "1", "}">>]]) }

RecipeLists == {<<RecipeA>>, <<RecipeB, RecipeC>>, <<RecipeA, RecipeB, RecipeC>>}

Ages == {30, 65}

\* range(1, 31)
Days == 30

(***************************************************************************)
(* State of one plan-generation run (generate_monthly_plan) and of the     *)
(* daily plan generator it is in.                                          *)
(***************************************************************************)
VARIABLES
    profile_age,        \* profile.age
    main_inventory,     \* load_inventory_items(ref_map)
    senior_box,         \* [] or load_senior_box_items(cycle, ref_map)
    filtered_recipes,   \* the recipes that passed the filters (not empty)
    day,                \* the loop variable of line 505
    daily_plans,        \* the plans appended so far
    pc,                 \* where the run is
    recipe,             \* the recipe of the day
    main_copy,          \* inventory_copy / main_copy of the generator
    box_copy,           \* box_copy of the senior generator
    raw_ingredients,
    ing_k,              \* index of the next ingredient
    cat_k,              \* index of the next category of MEAL_REQUIREMENT
    used_items,
    category_counts,
    foodbank_items,
    user_items,
    extra_needed,
    call,               \* the last direct call of an operation
    request,            \* request.get_json()
    profile,            \* Profile(**data)
    files,              \* what the request finds upstream
    excel_file,         \* data/excel_file.xlsx, shared by all requests
    recipes,            \* load_recipes(profile.age)
    response,           \* what the handler returned
    requests,           \* the concurrent requests, each with its own locals
    unit                \* the stock units that make one serving

vars == <<profile_age, main_inventory, senior_box, filtered_recipes, day,
          daily_plans, pc, recipe, main_copy, box_copy, raw_ingredients, ing_k,
          cat_k, used_items, category_counts, foodbank_items, user_items,
          extra_needed, call, request, profile, files, excel_file, recipes,
          response, requests, unit>>

input_vars == <<request, profile, files, excel_file, recipes, requests, unit>>

request_vars == <<input_vars, response>>

run_vars == <<profile_age, main_inventory, senior_box, filtered_recipes, request_vars>>

day_vars == <<recipe, raw_ingredients, ing_k, cat_k, used_items, category_counts,
              foodbank_items, user_items, extra_needed>>

NoCall == [op |-> "none"]

NoRecipe == [Title |-> "", Ingredients |-> <<>>, Categories |-> <<>>,
             Nutrition |-> NutritionEmpty]

EmptyDict == [c \in {} |-> 0]

ZeroCounts == [c \in Categories |-> 0]

IsSenior == profile_age >= 60

\* the handler has not returned
NoResponse == [status |-> 0]

\* data/excel_file.xlsx does not exist
Absent == [exists |-> FALSE, rows |-> <<>>]

ReferencePath == "/app/data/DATA SET FOOD CATEGORY.xlsx"

BoxPath == "/app/data/senior_box.xlsx"

InventoryService == "/export-inventory"

\* every upstream file is there and the inventory service answers
AllFiles ==
    {ReferencePath, BoxPath, InventoryService, "/app/data/data_set/senior.xlsx",
     "/app/data/data_set/adult.xlsx", "/app/data/data_set/teen.xlsx",
     "/app/data/data_set/kid.xlsx"}

NoRequests == <<>>

\* the JSON bodies of the monthly runs: no filter, activity level low, diet
\* vegetarian
RunRequests(age) ==
    { ("age" :> age),
      ("age" :> age) @@ ("physical" :> ("activity_level" :> "low")),
      ("age" :> age) @@ ("cultural" :> ("diet_type" :> <<Vegetarian>>)) }

\* the run as line 503 finds it: the export fetched and loaded, the catalog
\* loaded and filtered, the senior box loaded
Init ==
    /\ profile_age \in Ages
    /\ request \in RunRequests(profile_age)
    /\ profile = Profile(request)
    /\ files = AllFiles
    /\ excel_file \in {[exists |-> TRUE, rows |-> sheet] :
                           sheet \in Sheets(MainNames, MaxMainTotal)}
    /\ main_inventory = load_items(excel_file.rows)
    /\ senior_box \in IF profile_age >= 60
                      THEN {load_items(sheet) : sheet \in Sheets(BoxNames, MaxBoxTotal)}
                      ELSE {<<>>}
    /\ recipes = Catalog
    /\ filtered_recipes = filter_recipes(recipes, profile.physical, profile.cultural)
    /\ filtered_recipes \in RecipeLists
    /\ day = 1
    /\ daily_plans = <<>>
    /\ pc = "loop"
    /\ recipe = NoRecipe
    /\ main_copy = <<>>
    /\ box_copy = <<>>
    /\ raw_ingredients = <<>>
    /\ ing_k = 1
    /\ cat_k = 1
    /\ used_items = <<>>
    /\ category_counts = ZeroCounts
    /\ foodbank_items = <<>>
    /\ user_items = <<>>
    /\ extra_needed = EmptyDict
    /\ call = NoCall
    /\ response = NoResponse
    /\ requests = NoRequests
    /\ unit = 1

\* line 506 without the - 1
recipe_of_day_shifted(d) == filtered_recipes[(d % Len(filtered_recipes)) + 1]

\* line 506
recipe_of_day(d) == filtered_recipes[((d - 1) % Len(filtered_recipes)) + 1]

\* lines 332-333 without .lower()
resolve_category_cased(ing) == CATEGORY_MAP(ref_map_get(strip(sub_quantity(ing))))

\* lines 332-333 (and 402-403)
resolve_category(ing) == CATEGORY_MAP(ref_map_get(lower(strip(sub_quantity(ing)))))

SumUsed(used) == SumSeq([k \in 1..Len(used) |-> used[k].servings_used])

\* lines 505-506, 513 and 322-328: the standard generator is entered with
\* main_inventory and works on a deep copy of it
StartDay ==
    /\ pc = "loop"
    /\ day <= Days
    /\ ~IsSenior
    /\ recipe' = recipe_of_day(day)
    /\ main_copy' = main_inventory
    /\ box_copy' = <<>>
    /\ raw_ingredients' = raw_ingredients_of(recipe'.Ingredients)
    /\ ing_k' = 1
    /\ cat_k' = 1
    /\ used_items' = <<>>
    /\ category_counts' = ZeroCounts
    /\ foodbank_items' = <<>>
    /\ user_items' = <<>>
    /\ extra_needed' = EmptyDict
    /\ pc' = IF raw_ingredients' = <<>> THEN "topup" ELSE "ingredients"
    /\ UNCHANGED <<run_vars, day, daily_plans, call>>

\* lines 505-506, 509-511 and 391-398: the senior generator is entered with
\* senior_box and main_inventory and works on deep copies of them
SeniorStartDay ==
    /\ pc = "loop"
    /\ day <= Days
    /\ IsSenior
    /\ recipe' = recipe_of_day(day)
    /\ main_copy' = main_inventory
    /\ box_copy' = senior_box
    /\ raw_ingredients' = raw_ingredients_of(recipe'.Ingredients)
    /\ ing_k' = 1
    /\ cat_k' = 1
    /\ used_items' = <<>>
    /\ category_counts' = ZeroCounts
    /\ foodbank_items' = <<>>
    /\ user_items' = <<>>
    /\ extra_needed' = EmptyDict
    /\ pc' = IF raw_ingredients' = <<>> THEN "topup" ELSE "ingredients"
    /\ UNCHANGED <<run_vars, day, daily_plans, call>>

\* the name the generator asks the ledger for: lines 339 and 409 pass ing
requested_name(ing) == ing

\* the normalised name of the fragment instead of the fragment
unresolved_item_base(ing) == lower(strip(sub_quantity(ing)))

\* what goes to user_items for an unresolved fragment: lines 336 and 406
unresolved_item(ing) == ing

\* the 1 of lines 339 and 409: one serving, in stock units
one_serving == unit

\* line 347 (417) counting every resolved fragment as fulfilled
fulfilled_by_always(remaining) == one_serving

\* line 347 (417): what a resolved fragment adds to its category's count
fulfilled_by(remaining) == one_serving - remaining

\* one iteration of the loop of lines 331-347 (standard generator)
Ingredient ==
    /\ pc = "ingredients"
    /\ ~IsSenior
    /\ ing_k <= Len(raw_ingredients)
    /\ LET ing == raw_ingredients[ing_k]
           category == resolve_category(ing)
           r == allocate_specific_item(main_copy, requested_name(ing), category,
                                       one_serving)
       IN  IF category = NoCategory
           THEN /\ user_items' = Append(user_items, unresolved_item(ing))
                /\ UNCHANGED <<main_copy, used_items, foodbank_items, category_counts>>
           ELSE /\ main_copy' = r.inventory
                /\ used_items' = used_items \o r.used
                /\ IF r.needed > 0
                   THEN /\ user_items' = Append(user_items, ing)
                        /\ UNCHANGED foodbank_items
                   ELSE /\ foodbank_items' = Append(foodbank_items, ing)
                        /\ UNCHANGED user_items
                /\ category_counts' =
                       [category_counts EXCEPT ![category] = @ + fulfilled_by(r.needed)]
    /\ ing_k' = ing_k + 1
    /\ pc' = IF ing_k' > Len(raw_ingredients) THEN "topup" ELSE "ingredients"
    /\ UNCHANGED <<run_vars, day, daily_plans, recipe, raw_ingredients, cat_k,
                   extra_needed, box_copy, call>>

\* one iteration of the loop of lines 401-417 (senior generator)
SeniorIngredient ==
    /\ pc = "ingredients"
    /\ IsSenior
    /\ ing_k <= Len(raw_ingredients)
    /\ LET ing == raw_ingredients[ing_k]
           category == resolve_category(ing)
           r == allocate_senior_item(box_copy, main_copy, requested_name(ing),
                                     category, one_serving)
       IN  IF category = NoCategory
           THEN /\ user_items' = Append(user_items, unresolved_item(ing))
                /\ UNCHANGED <<main_copy, box_copy, used_items, foodbank_items,
                               category_counts>>
           ELSE /\ main_copy' = r.main
                /\ box_copy' = r.box
                /\ used_items' = used_items \o r.used
                /\ IF r.needed > 0
                   THEN /\ user_items' = Append(user_items, ing)
                        /\ UNCHANGED foodbank_items
                   ELSE /\ foodbank_items' = Append(foodbank_items, ing)
                        /\ UNCHANGED user_items
                /\ category_counts' =
                       [category_counts EXCEPT ![category] = @ + fulfilled_by(r.needed)]
    /\ ing_k' = ing_k + 1
    /\ pc' = IF ing_k' > Len(raw_ingredients) THEN "topup" ELSE "ingredients"
    /\ UNCHANGED <<run_vars, day, daily_plans, recipe, raw_ingredients, cat_k,
                   extra_needed, call>>

\* line 352 (422) without the fulfilled count
shortfall_of_required(required, count) == required

\* line 352 (422)
shortfall_of(required, count) == Max(0, required - count)

\* one iteration of the loop of lines 351-359 (standard generator)
TopUp ==
    /\ pc = "topup"
    /\ ~IsSenior
    /\ cat_k <= Len(MEAL_CATEGORIES)
    /\ LET cat == MEAL_CATEGORIES[cat_k]
           required == MEAL_REQUIREMENT(cat) * one_serving
           shortfall == shortfall_of(required, category_counts[cat])
           extra == allocate_category(main_copy, cat, shortfall)
           count == category_counts[cat] + SumUsed(extra.used)
           remaining_shortfall == required - count
       IN  IF shortfall > 0
           THEN /\ main_copy' = extra.inventory
                /\ used_items' = used_items \o extra.used
                /\ category_counts' = [category_counts EXCEPT ![cat] = count]
                /\ extra_needed' = IF remaining_shortfall > 0
                                   THEN (cat :> remaining_shortfall) @@ extra_needed
                                   ELSE extra_needed
           ELSE UNCHANGED <<main_copy, used_items, category_counts, extra_needed>>
    /\ cat_k' = cat_k + 1
    /\ pc' = IF cat_k' > Len(MEAL_CATEGORIES) THEN "return" ELSE "topup"
    /\ UNCHANGED <<run_vars, day, daily_plans, recipe, raw_ingredients, ing_k,
                   foodbank_items, user_items, box_copy, call>>

\* lines 424-427
senior_top_up(box, main, cat, shortfall) ==
    IF cat = "misc"
    THEN allocate_senior_misc(box, main, shortfall)
    ELSE allocate_senior_category(box, main, cat, shortfall)

\* one iteration of the loop of lines 421-432 (senior generator)
SeniorTopUp ==
    /\ pc = "topup"
    /\ IsSenior
    /\ cat_k <= Len(MEAL_CATEGORIES)
    /\ LET cat == MEAL_CATEGORIES[cat_k]
           required == MEAL_REQUIREMENT(cat) * one_serving
           shortfall == shortfall_of(required, category_counts[cat])
           allocated == senior_top_up(box_copy, main_copy, cat, shortfall)
           count == category_counts[cat] + SumUsed(allocated.used)
           remaining_shortfall == required - count
       IN  IF shortfall > 0
           THEN /\ main_copy' = allocated.main
                /\ box_copy' = allocated.box
                /\ used_items' = used_items \o allocated.used
                /\ category_counts' = [category_counts EXCEPT ![cat] = count]
                /\ extra_needed' = IF remaining_shortfall > 0
                                   THEN (cat :> remaining_shortfall) @@ extra_needed
                                   ELSE extra_needed
           ELSE UNCHANGED <<main_copy, box_copy, used_items, category_counts,
                            extra_needed>>
    /\ cat_k' = cat_k + 1
    /\ pc' = IF cat_k' > Len(MEAL_CATEGORIES) THEN "return" ELSE "topup"
    /\ UNCHANGED <<run_vars, day, daily_plans, recipe, raw_ingredients, ing_k,
                   foodbank_items, user_items, call>>

\* the plan numbered with the day after
daily_plan_next_day ==
    [day |-> day + 1,
     title |-> recipe.Title,
     ingredients |-> raw_ingredients,
     foodbank_items |-> foodbank_items,
     user_items |-> user_items,
     nutrition |-> plan_nutrition(recipe.Nutrition),
     used_items |-> used_items,
     extra_needed |-> extra_needed]

\* lines 371-386 (444-459) and 515-518
daily_plan ==
    [day |-> day,
     title |-> recipe.Title,
     ingredients |-> raw_ingredients,
     foodbank_items |-> foodbank_items,
     user_items |-> user_items,
     nutrition |-> plan_nutrition(recipe.Nutrition),
     used_items |-> used_items,
     extra_needed |-> extra_needed]

EndDay ==
    /\ pc = "return"
    /\ daily_plans' = Append(daily_plans, daily_plan)
    /\ day' = day + 1
    /\ pc' = "loop"
    /\ UNCHANGED <<run_vars, day_vars, main_copy, box_copy, call>>

\* line 522
age_group(age) ==
    IF age >= 60 THEN "senior"
    ELSE IF age >= 18 THEN "adult"
    ELSE IF age >= 10 THEN "teen"
    ELSE "kid"

\* lines 520-525: the report; a month of 0 is falsy
report ==
    [status |-> 200,
     month |-> IF profile.month # 0 THEN profile.month ELSE 1,
     age_group |-> age_group(profile_age),
     senior_box_cycle |-> IF profile_age >= 60
                          THEN get_senior_box_cycle(profile.month) ELSE 0,
     daily_plans |-> daily_plans]

\* jsonify({"error": message}), status
error_response(message, status) == [status |-> status, error |-> message]

\* lines 530-532 when jsonify raises TypeError
not_serializable_response ==
    error_response("Object of type set is not JSON serializable", 500)

\* lines 520-525: the loop is over
Finish ==
    /\ pc = "loop"
    /\ day > Days
    /\ pc' = "done"
    /\ response' = IF json_serializable(daily_plans) THEN report
                   ELSE not_serializable_response
    /\ UNCHANGED <<profile_age, main_inventory, senior_box, filtered_recipes,
                   input_vars, day, daily_plans, day_vars, main_copy, box_copy, call>>

Next ==
    StartDay \/ SeniorStartDay \/ Ingredient \/ SeniorIngredient \/ TopUp
        \/ SeniorTopUp \/ EndDay \/ Finish

Spec == Init /\ [][Next]_vars

(***************************************************************************)
(* The monthly run on sheets that hold half servings: pd.to_numeric (lines *)
(* 99, 248) keeps a quantity of 0.5 or 1.5 as it is, and lines 111 and 260 *)
(* store it.  The stock numbers count half servings, a serving is 2.       *)
(***************************************************************************)
InitHalves ==
    /\ unit = 2
    /\ profile_age \in Ages
    /\ request = ("age" :> profile_age)
    /\ profile = Profile(request)
    /\ files = AllFiles
    /\ excel_file \in {[exists |-> TRUE, rows |-> sheet] :
                           sheet \in Sheets(MainNames, MaxMainTotal)}
    /\ main_inventory = load_items(excel_file.rows)
    /\ senior_box \in IF profile_age >= 60
                      THEN {load_items(sheet) : sheet \in Sheets(BoxNames, MaxBoxTotal)}
                      ELSE {<<>>}
    /\ recipes = Catalog
    /\ filtered_recipes = filter_recipes(recipes, profile.physical, profile.cultural)
    /\ day = 1
    /\ daily_plans = <<>>
    /\ pc = "loop"
    /\ recipe = NoRecipe
    /\ main_copy = <<>>
    /\ box_copy = <<>>
    /\ raw_ingredients = <<>>
    /\ ing_k = 1
    /\ cat_k = 1
    /\ used_items = <<>>
    /\ category_counts = ZeroCounts
    /\ foodbank_items = <<>>
    /\ user_items = <<>>
    /\ extra_needed = EmptyDict
    /\ call = NoCall
    /\ response = NoResponse
    /\ requests = NoRequests

SpecHalves == InitHalves /\ [][Next]_vars

(***************************************************************************)
(* The monthly run on a catalog whose recipes hold every kind of Nutrition *)
(* value.                                                                  *)
(***************************************************************************)
InitNutrition ==
    /\ unit = 1
    /\ profile_age \in Ages
    /\ request = ("age" :> profile_age)
    /\ profile = Profile(request)
    /\ files = AllFiles
    /\ excel_file \in {[exists |-> TRUE, rows |-> sheet] : sheet \in Sheets(MainNames, 1)}
    /\ main_inventory = load_items(excel_file.rows)
    /\ senior_box \in IF profile_age >= 60
                      THEN {load_items(sheet) : sheet \in Sheets(BoxNames, 1)}
                      ELSE {<<>>}
    /\ recipes \in NutritionCatalogs
    /\ filtered_recipes = filter_recipes(recipes, profile.physical, profile.cultural)
    /\ day = 1
    /\ daily_plans = <<>>
    /\ pc = "loop"
    /\ recipe = NoRecipe
    /\ main_copy = <<>>
    /\ box_copy = <<>>
    /\ raw_ingredients = <<>>
    /\ ing_k = 1
    /\ cat_k = 1
    /\ used_items = <<>>
    /\ category_counts = ZeroCounts
    /\ foodbank_items = <<>>
    /\ user_items = <<>>
    /\ extra_needed = EmptyDict
    /\ call = NoCall
    /\ response = NoResponse
    /\ requests = NoRequests

SpecNutrition == InitNutrition /\ [][Next]_vars

(***************************************************************************)
(* The whole request: generate_monthly_plan from the JSON body to the      *)
(* response, with the upstream data the request finds.                     *)
(***************************************************************************)
\* the JSON bodies a request carries
Requests ==
    { <<>>,
      ("month" :> 2),
      ("age" :> 30),
      ("age" :> 30) @@ ("physical" :> <<>>),
      ("age" :> 30) @@ ("physical" :> ("activity_level" :> "high")),
      ("age" :> 30) @@ ("cultural" :> ("diet_type" :> <<Vegetarian>>)),
      ("age" :> 30) @@ ("cultural" :> ("diet_type" :> <<Kosher>>)),
      ("age" :> 30) @@ ("month" :> 4),
      ("age" :> 65) @@ ("month" :> 0),
      ("age" :> 65) @@ ("month" :> 5),
      ("age" :> 65) @@ ("month" :> 12),
      ("age" :> 65) @@ ("physical" :> ("activity_level" :> "low")),
      ("age" :> 65) @@ ("physical" :> ("activity_level" :> "extreme")) }

\* upstream: everything there, or one file or the inventory service missing
FileStates ==
    {AllFiles} \cup {AllFiles \ {f} : f \in AllFiles}

\* the rows the inventory service exports: one row of an item that is not
\* mapped to a category, or the rows of MainNames with at most one serving
\* in all
ExportedSheets == {Rows(<<Tea>>, <<1>>)} \cup Sheets(MainNames, 1)

\* the rows of the senior box sheet of the cycle
BoxSheets == {<<>>} \cup Sheets(BoxNames, 1)

InitRequest ==
    /\ request \in Requests
    /\ files \in FileStates
    /\ excel_file = Absent
    /\ profile = None
    /\ profile_age = 0
    /\ main_inventory = <<>>
    /\ senior_box = <<>>
    /\ recipes = <<>>
    /\ filtered_recipes = <<>>
    /\ response = NoResponse
    /\ requests = NoRequests
    /\ day = 1
    /\ daily_plans = <<>>
    /\ pc = "request"
    /\ recipe = NoRecipe
    /\ main_copy = <<>>
    /\ box_copy = <<>>
    /\ raw_ingredients = <<>>
    /\ ing_k = 1
    /\ cat_k = 1
    /\ used_items = <<>>
    /\ category_counts = ZeroCounts
    /\ foodbank_items = <<>>
    /\ user_items = <<>>
    /\ extra_needed = EmptyDict
    /\ call = NoCall
    /\ unit = 1

\* lines 530-532 after line 506 divides by the length of an empty list
modulo_by_zero_response == error_response("integer division or modulo by zero", 500)

\* lines 491-493
no_match_response == error_response("No recipes match the provided filters", 404)

\* lines 527-529: a FileNotFoundError raised anywhere in the handler
file_not_found_response(message) == error_response(message, 404)

\* the handler returns r
Respond(r) == response' = r /\ pc' = "done"

\* what the steps before the day loop leave alone
front_unchanged ==
    <<files, requests, unit, day, daily_plans, day_vars, main_copy, box_copy, call>>

\* lines 466-473
Validate ==
    /\ pc = "request"
    /\ IF DOMAIN request = {}
       THEN /\ Respond(error_response("No input data provided", 400))
            /\ UNCHANGED <<profile, profile_age>>
       ELSE IF ~profile_valid(request)
       THEN /\ Respond(error_response("age: field required", 400))
            /\ UNCHANGED <<profile, profile_age>>
       ELSE /\ profile' = Profile(request)
            /\ profile_age' = profile'.age
            /\ pc' = "fetch"
            /\ UNCHANGED response
    /\ UNCHANGED <<front_unchanged, request, excel_file, main_inventory, senior_box,
                   recipes, filtered_recipes>>

\* lines 476-477 and fetch_inventory_file: the export is written to the
\* shared path
FetchInventory ==
    /\ pc = "fetch"
    /\ IF InventoryService \in files
       THEN /\ \E sheet \in ExportedSheets :
                  excel_file' = [exists |-> TRUE, rows |-> sheet]
            /\ pc' = "load_reference"
            /\ UNCHANGED response
       ELSE /\ Respond(error_response("Failed to fetch inventory", 500))
            /\ UNCHANGED excel_file
    /\ UNCHANGED <<front_unchanged, request, profile, profile_age, main_inventory,
                   senior_box, recipes, filtered_recipes>>

\* line 479 and load_food_reference
LoadReference ==
    /\ pc = "load_reference"
    /\ IF ReferencePath \in files
       THEN pc' = "load_inventory" /\ UNCHANGED response
       ELSE Respond(file_not_found_response("Food reference file not found"))
    /\ UNCHANGED <<front_unchanged, request, profile, profile_age, excel_file,
                   main_inventory, senior_box, recipes, filtered_recipes>>

\* line 480 and load_inventory_items
LoadInventory ==
    /\ pc = "load_inventory"
    /\ IF excel_file.exists
       THEN /\ main_inventory' = load_items(excel_file.rows)
            /\ pc' = "load_recipes"
            /\ UNCHANGED response
       ELSE /\ Respond(file_not_found_response("Inventory file not found"))
            /\ UNCHANGED main_inventory
    /\ UNCHANGED <<front_unchanged, request, profile, profile_age, excel_file,
                   senior_box, recipes, filtered_recipes>>

\* line 481 and load_recipes
LoadRecipes ==
    /\ pc = "load_recipes"
    /\ IF get_recipe_file(profile.age) \in files
       THEN /\ recipes' = Catalog
            /\ pc' = "filter"
            /\ UNCHANGED response
       ELSE /\ Respond(file_not_found_response("Recipe file not found"))
            /\ UNCHANGED recipes
    /\ UNCHANGED <<front_unchanged, request, profile, profile_age, excel_file,
                   main_inventory, senior_box, filtered_recipes>>

\* lines 484-493
FilterRecipes ==
    /\ pc = "filter"
    /\ filtered_recipes' = filter_recipes(recipes, profile.physical, profile.cultural)
    /\ IF filtered_recipes' = <<>>
       THEN Respond(no_match_response)
       ELSE pc' = "load_box" /\ UNCHANGED response
    /\ UNCHANGED <<front_unchanged, request, profile, profile_age, excel_file,
                   main_inventory, senior_box, recipes>>

\* lines 496-501 and load_senior_box_items
LoadSeniorBox ==
    /\ pc = "load_box"
    /\ IF profile.age >= 60
       THEN IF BoxPath \in files
            THEN /\ \E sheet \in BoxSheets : senior_box' = load_items(sheet)
                 /\ pc' = "loop"
                 /\ UNCHANGED response
            ELSE /\ Respond(file_not_found_response("Senior box file not found"))
                 /\ UNCHANGED senior_box
       ELSE /\ senior_box' = <<>>
            /\ pc' = "loop"
            /\ UNCHANGED response
    /\ UNCHANGED <<front_unchanged, request, profile, profile_age, excel_file,
                   main_inventory, recipes, filtered_recipes>>

NextRequest ==
    Validate \/ FetchInventory \/ LoadReference \/ LoadInventory \/ LoadRecipes
        \/ FilterRecipes \/ LoadSeniorBox \/ Next

SpecRequest == InitRequest /\ [][NextRequest]_vars

(***************************************************************************)
(* Two requests served at the same time (app.run serves every request in   *)
(* a thread of its own): each has its own locals, all write and read the   *)
(* one path data/excel_file.xlsx.  A request is followed from its download *)
(* of the export to its main_inventory.                                    *)
(***************************************************************************)
RequestIds == {1, 2}

\* the file between open(output_path, "wb") and the end of f.write
Torn == [exists |-> TRUE, torn |-> TRUE]

IsTorn(file) == "torn" \in DOMAIN file

\* the locals of a request: the content it downloaded, its main_inventory
\* and the status it returned (0: none yet)
NewRequest == [pc |-> "fetch", content |-> <<>>, main_inventory |-> <<>>, status |-> 0]

InitConcurrent ==
    /\ requests = [r \in RequestIds |-> NewRequest]
    /\ excel_file = Absent
    /\ request = <<>>
    /\ profile = None
    /\ files = AllFiles
    /\ profile_age = 0
    /\ main_inventory = <<>>
    /\ senior_box = <<>>
    /\ recipes = <<>>
    /\ filtered_recipes = <<>>
    /\ response = NoResponse
    /\ day = 1
    /\ daily_plans = <<>>
    /\ pc = "concurrent"
    /\ recipe = NoRecipe
    /\ main_copy = <<>>
    /\ box_copy = <<>>
    /\ raw_ingredients = <<>>
    /\ ing_k = 1
    /\ cat_k = 1
    /\ used_items = <<>>
    /\ category_counts = ZeroCounts
    /\ foodbank_items = <<>>
    /\ user_items = <<>>
    /\ extra_needed = EmptyDict
    /\ call = NoCall
    /\ unit = 1

concurrent_unchanged ==
    <<profile_age, main_inventory, senior_box, filtered_recipes, request, profile,
      files, recipes, response, day, daily_plans, pc, day_vars, main_copy,
      box_copy, call, unit>>

\* line 66: the request downloads the export as the service has it now
Download(r) ==
    /\ requests[r].pc = "fetch"
    /\ \E sheet \in ExportedSheets :
         requests' = [requests EXCEPT ![r].content = sheet, ![r].pc = "open"]
    /\ UNCHANGED <<concurrent_unchanged, excel_file>>

\* line 69: open(output_path, "wb") truncates the shared file
OpenFile(r) ==
    /\ requests[r].pc = "open"
    /\ excel_file' = Torn
    /\ requests' = [requests EXCEPT ![r].pc = "write"]
    /\ UNCHANGED concurrent_unchanged

\* lines 70-72: the content is written and the file closed
WriteFile(r) ==
    /\ requests[r].pc = "write"
    /\ excel_file' = [exists |-> TRUE, rows |-> requests[r].content]
    /\ requests' = [requests EXCEPT ![r].pc = "load"]
    /\ UNCHANGED concurrent_unchanged

\* line 480 and load_inventory_items: the request reads the shared file;
\* a file that is being written is no workbook, read_excel raises and the
\* handler answers 500 (lines 530-532)
ReadFile(r) ==
    /\ requests[r].pc = "load"
    /\ IF IsTorn(excel_file)
       THEN requests' = [requests EXCEPT ![r].status = 500, ![r].pc = "done"]
       ELSE requests' = [requests EXCEPT
                            ![r].main_inventory = load_items(excel_file.rows),
                            ![r].pc = "loaded"]
    /\ UNCHANGED <<concurrent_unchanged, excel_file>>

NextConcurrent ==
    \E r \in RequestIds : Download(r) \/ OpenFile(r) \/ WriteFile(r) \/ ReadFile(r)

SpecConcurrent == InitConcurrent /\ [][NextConcurrent]_vars

(***************************************************************************)
(* The allocation strategies called directly, in any order, on a pair of   *)
(* ledgers: main_copy and box_copy start as copies of main_inventory and   *)
(* senior_box, fully stocked, and are depleted in place by every call.     *)
(* Every ledger with less stock is reached by some sequence of calls.      *)
(***************************************************************************)
ApiMainNames == <<Sugar, SaltPepper, Coffee, Milk>>

ApiBoxNames == <<SUGAR, Milk>>

FullStock(names) == load_items(Rows(names, [k \in 1..Len(names) |-> MaxStock]))

\* the (item_name, category) pairs a call asks for
ApiRequests ==
    { <<Sugar, "misc">>, <<SaltPepper, "misc">>, <<Coffee, "misc">>,
      <<Milk, "dairy">>, <<Milk, "misc">> }

ApiCategories == {"misc", "dairy"}

InitAlloc ==
    /\ profile_age = 65
    /\ main_inventory = FullStock(ApiMainNames)
    /\ senior_box = FullStock(ApiBoxNames)
    /\ filtered_recipes = <<>>
    /\ day = 1
    /\ daily_plans = <<>>
    /\ pc = "api"
    /\ recipe = NoRecipe
    /\ main_copy = main_inventory
    /\ box_copy = senior_box
    /\ raw_ingredients = <<>>
    /\ ing_k = 1
    /\ cat_k = 1
    /\ used_items = <<>>
    /\ category_counts = ZeroCounts
    /\ foodbank_items = <<>>
    /\ user_items = <<>>
    /\ extra_needed = EmptyDict
    /\ call = NoCall
    /\ request = ("age" :> profile_age)
    /\ profile = Profile(request)
    /\ files = AllFiles
    /\ excel_file = Absent
    /\ recipes = <<>>
    /\ response = NoResponse
    /\ requests = NoRequests
    /\ unit = 1

\* what a call was given and what it returned
Called(op, item_name, category, needed, r) ==
    [op |-> op, item_name |-> item_name, category |-> category, needed |-> needed,
     used |-> r.used, remaining |-> r.needed,
     box_before |-> box_copy, main_before |-> main_copy]

api_unchanged == <<run_vars, day, daily_plans, day_vars>>

CallSpecificItem ==
    /\ pc = "api"
    /\ \E req \in ApiRequests, needed \in 0..MaxNeeded :
         LET r == allocate_specific_item(main_copy, req[1], req[2], needed) IN
         /\ main_copy' = r.inventory
         /\ call' = Called("allocate_specific_item", req[1], req[2], needed, r)
    /\ pc' = "called"
    /\ UNCHANGED <<api_unchanged, box_copy>>

CallCategory ==
    /\ pc = "api"
    /\ \E category \in ApiCategories, needed \in 0..MaxNeeded :
         LET r == allocate_category(main_copy, category, needed) IN
         /\ main_copy' = r.inventory
         /\ call' = Called("allocate_category", <<>>, category, needed, r)
    /\ pc' = "called"
    /\ UNCHANGED <<api_unchanged, box_copy>>

CallSeniorItem ==
    /\ pc = "api"
    /\ \E req \in ApiRequests, needed \in 0..MaxNeeded :
         LET r == allocate_senior_item(box_copy, main_copy, req[1], req[2], needed) IN
         /\ main_copy' = r.main
         /\ box_copy' = r.box
         /\ call' = Called("allocate_senior_item", req[1], req[2], needed, r)
    /\ pc' = "called"
    /\ UNCHANGED api_unchanged

CallSeniorCategory ==
    /\ pc = "api"
    /\ \E category \in ApiCategories, needed \in 0..MaxNeeded :
         LET r == allocate_senior_category(box_copy, main_copy, category, needed) IN
         /\ main_copy' = r.main
         /\ box_copy' = r.box
         /\ call' = Called("allocate_senior_category", <<>>, category, needed, r)
    /\ pc' = "called"
    /\ UNCHANGED api_unchanged

CallSeniorMisc ==
    /\ pc = "api"
    /\ \E needed \in 0..MaxNeeded :
         LET r == allocate_senior_misc(box_copy, main_copy, needed) IN
         /\ main_copy' = r.main
         /\ box_copy' = r.box
         /\ call' = Called("allocate_senior_misc", <<>>, "misc", needed, r)
    /\ pc' = "called"
    /\ UNCHANGED api_unchanged

\* the caller is done with the result; the ledgers stay as the call left them
Return ==
    /\ pc = "called"
    /\ pc' = "api"
    /\ call' = NoCall
    /\ UNCHANGED <<api_unchanged, main_copy, box_copy>>

NextAlloc ==
    CallSpecificItem \/ CallCategory \/ CallSeniorItem \/ CallSeniorCategory
        \/ CallSeniorMisc \/ Return

SpecAlloc == InitAlloc /\ [][NextAlloc]_vars

(***************************************************************************)
(* The recipe filter and the category resolution called directly: the      *)
(* filter as the handler calls it (lines 484-488) on the profile of a JSON *)
(* body and a catalog of recipes of given calories, the resolution (lines  *)
(* 332-333) twice on two casings of a name.                                *)
(***************************************************************************)
\* calorie values on both sides of the thresholds of lines 195-199
CalorieValues == {0, 349, 350, 351, 499, 500, 501}

CalorieLists ==
    {<<c>> : c \in CalorieValues} \cup {<<c, d>> : c, d \in CalorieValues}

\* a recipe whose Nutrition cell gives c calories
CalorieRecipe(c) ==
    [Title |-> "R", Ingredients |-> IngredientsA, Categories |-> Vegan,
     Nutrition |-> NutritionText(c)]

\* the JSON bodies the filter is called for
FilterRequests ==
    { ("age" :> 30),
      ("age" :> 30) @@ ("physical" :> <<>>),
      ("age" :> 30) @@ ("physical" :> ("activity_level" :> Null)),
      ("age" :> 30) @@ ("physical" :> ("activity_level" :> "low")),
      ("age" :> 30) @@ ("physical" :> ("activity_level" :> "moderate")),
      ("age" :> 30) @@ ("physical" :> ("activity_level" :> "high")),
      ("age" :> 30) @@ ("physical" :> ("activity_level" :> "low"))
                    @@ ("cultural" :> ("diet_type" :> <<upper(Vegan)>>)),
      ("age" :> 30) @@ ("physical" :> ("activity_level" :> "moderate"))
                    @@ ("cultural" :> ("diet_type" :> <<Kosher>>)) }

\* the ingredient names that are resolved
ResolveNames == {Rice, Sugar, SaltPepper, Milk, Tea, Tofu, IngredientsA}

\* a name as written, in lower case and in upper case
Casings(name) == {name, lower(name), upper(name)}

InitPure ==
    /\ profile_age = 30
    /\ main_inventory = FullStock(ApiMainNames)
    /\ senior_box = FullStock(ApiBoxNames)
    /\ filtered_recipes = <<>>
    /\ day = 1
    /\ daily_plans = <<>>
    /\ pc = "api"
    /\ recipe = NoRecipe
    /\ main_copy = main_inventory
    /\ box_copy = senior_box
    /\ raw_ingredients = <<>>
    /\ ing_k = 1
    /\ cat_k = 1
    /\ used_items = <<>>
    /\ category_counts = ZeroCounts
    /\ foodbank_items = <<>>
    /\ user_items = <<>>
    /\ extra_needed = EmptyDict
    /\ call = NoCall
    /\ request = ("age" :> profile_age)
    /\ profile = Profile(request)
    /\ files = AllFiles
    /\ excel_file = Absent
    /\ recipes = <<>>
    /\ response = NoResponse
    /\ requests = NoRequests
    /\ unit = 1

\* lines 471 and 484-488 on a catalog of recipes with the calories cs
CallFilterRecipes ==
    /\ pc = "api"
    /\ \E data \in FilterRequests, cs \in CalorieLists :
         LET catalog == [k \in 1..Len(cs) |-> CalorieRecipe(cs[k])]
             p == Profile(data)
         IN  call' = [op |-> "filter_recipes", data |-> data, calories |-> cs,
                      recipes |-> catalog,
                      result |-> filter_recipes(catalog, p.physical, p.cultural)]
    /\ pc' = "called"
    /\ UNCHANGED <<api_unchanged, main_copy, box_copy>>

\* lines 332-333, on one casing of a name and then on another
CallResolve ==
    /\ pc = "api"
    /\ \E name \in ResolveNames :
         \E first \in Casings(name), second \in Casings(name) :
            call' = [op |-> "resolve_category", first |-> first, second |-> second,
                     categories |-> <<resolve_category(first), resolve_category(second)>>,
                     box_before |-> box_copy, main_before |-> main_copy]
    /\ pc' = "called"
    /\ UNCHANGED <<api_unchanged, main_copy, box_copy>>

NextPure == CallFilterRecipes \/ CallResolve \/ Return

SpecPure == InitPure /\ [][NextPure]_vars

(***************************************************************************)
(* Measures used by the properties.                                        *)
(***************************************************************************)
NameIs(item, name) == lower(strip(item.item_name)) = lower(strip(name))

\* total stock of the entries of a ledger that satisfy P
StockOf(ledger, P(_)) ==
    SumSeq([k \in 1..Len(ledger) |->
              IF P(ledger[k]) THEN ledger[k].servings_available ELSE 0])

\* what was deducted from the entries that satisfy P
Taken(before, after, P(_)) == StockOf(before, P) - StockOf(after, P)

\* servings of the records that satisfy P
UsedBy(used, P(_)) ==
    SumSeq([k \in 1..Len(used) |-> IF P(used[k]) THEN used[k].servings_used ELSE 0])

SeniorOps == {"allocate_senior_item", "allocate_senior_category", "allocate_senior_misc"}

EntryNames(ledger) == {ledger[k].item_name : k \in 1..Len(ledger)}

(***************************************************************************)
(* C3 (as claimed).  Source priority: in a senior allocation for an item   *)
(* or a category C, nothing is deducted from the main ledger for C while   *)
(* the box ledger still has positive stock for C.  For the specific item   *)
(* and the category call the box is not touched after main is consulted,   *)
(* so the box stock when main is drawn is the box stock after the call.    *)
(* The misc top-up asks for the category misc: each of its steps (one      *)
(* name of MISC_PRIORITY, box then main) is looked at with the box as it   *)
(* is when that step draws from main.                                      *)
(***************************************************************************)
C3_BoxBeforeMain ==
    /\ (pc = "called" /\ call.op = "allocate_senior_item") =>
         LET Wanted(item) == item.category = call.category /\ NameIs(item, call.item_name)
         IN  Taken(call.main_before, main_copy, Wanted) > 0
                 => StockOf(box_copy, Wanted) = 0
    /\ (pc = "called" /\ call.op = "allocate_senior_category") =>
         LET Wanted(item) == item.category = call.category
         IN  Taken(call.main_before, main_copy, Wanted) > 0
                 => StockOf(box_copy, Wanted) = 0
    /\ (pc = "called" /\ call.op = "allocate_senior_misc") =>
         \A k \in 1..Len(MISC_PRIORITY) :
            LET p == senior_misc_prefix(call.box_before, call.main_before,
                                        call.needed, k - 1)
                q == senior_misc_prefix(call.box_before, call.main_before,
                                        call.needed, k)
                Wanted(item) == item.category = "misc"
            IN  Taken(p.main, q.main, Wanted) > 0 => StockOf(q.box, Wanted) = 0

(***************************************************************************)
(* C4 (as claimed).  Source tagging: after a senior allocation, for every  *)
(* item name the servings of the records tagged box are what was deducted  *)
(* from the box entries of that name, and the servings of the records      *)
(* tagged main are what was deducted from the main entries of that name.   *)
(***************************************************************************)
C4_SourceTagsMatchLedgers ==
    (pc = "called" /\ call.op \in SeniorOps) =>
        \A name \in EntryNames(box_copy) \cup EntryNames(main_copy) :
            LET Named(x) == x.item_name = name
                TaggedBox(x) == x.item_name = name /\ x.source = "box"
                TaggedMain(x) == x.item_name = name /\ x.source = "main"
            IN  /\ UsedBy(call.used, TaggedBox) = Taken(call.box_before, box_copy, Named)
                /\ UsedBy(call.used, TaggedMain) = Taken(call.main_before, main_copy, Named)

(***************************************************************************)
(* C6.  Stock never goes negative and never increases: after any sequence  *)
(* of allocation calls every entry of both ledgers holds at least 0 and at *)
(* most what it held before the sequence (main_inventory, senior_box), and *)
(* at most what it held before the last call.                              *)
(***************************************************************************)
C6_StockNeverNegativeNorIncreases ==
    /\ Len(main_copy) = Len(main_inventory)
    /\ Len(box_copy) = Len(senior_box)
    /\ \A k \in 1..Len(main_copy) :
          /\ main_copy[k].servings_available >= 0
          /\ main_copy[k].servings_available <= main_inventory[k].servings_available
          /\ pc = "called" =>
               main_copy[k].servings_available <= call.main_before[k].servings_available
    /\ \A k \in 1..Len(box_copy) :
          /\ box_copy[k].servings_available >= 0
          /\ box_copy[k].servings_available <= senior_box[k].servings_available
          /\ pc = "called" =>
               box_copy[k].servings_available <= call.box_before[k].servings_available

\* a call that asked for more than an entry held has emptied it
C6_Witness ==
    /\ pc = "called"
    /\ \E k \in 1..Len(main_copy) :
          /\ call.main_before[k].servings_available > 0
          /\ call.needed > call.main_before[k].servings_available
          /\ main_copy[k].servings_available = 0

(***************************************************************************)
(* C7.  Every record an allocation operation returns has servings_used > 0 *)
(* and servings_used at most what was still needed when it was created:    *)
(* the call's needed less the servings of the records before it.           *)
(***************************************************************************)
C7_RecordsPositiveWithinNeed ==
    pc = "called" =>
        \A k \in 1..Len(call.used) :
            /\ call.used[k].servings_used > 0
            /\ call.used[k].servings_used
                   <= call.needed - SumUsed(SubSeq(call.used, 1, k - 1))

\* two records, the second cut down to what the first left needed
C7_Witness ==
    /\ pc = "called"
    /\ Len(call.used) = 2
    /\ call.remaining = 0
    /\ \E k \in 1..Len(main_copy) :
          /\ main_copy[k].item_name = call.used[2].item_name
          /\ main_copy[k].servings_available > 0
          /\ main_copy[k].servings_available < call.main_before[k].servings_available

(***************************************************************************)
(* C10.  Boundary: allocate_specific_item called with needed = 0 returns   *)
(* no record and remainder 0 and leaves every ledger entry as it was.      *)
(***************************************************************************)
C10_SpecificZeroNeeded ==
    (pc = "called" /\ call.op = "allocate_specific_item" /\ call.needed = 0) =>
        /\ call.used = <<>>
        /\ call.remaining = 0
        /\ main_copy = call.main_before
        /\ box_copy = call.box_before

\* the call with needed = 0 named an item the ledger has in stock
C10_Witness ==
    /\ pc = "called"
    /\ call.op = "allocate_specific_item"
    /\ call.needed = 0
    /\ \E k \in 1..Len(main_copy) :
          /\ main_copy[k].category = call.category
          /\ NameIs(main_copy[k], call.item_name)
          /\ main_copy[k].servings_available > 0

(***************************************************************************)
(* Properties of the monthly run.                                          *)
(***************************************************************************)
\* servings of the records named name in the used_items of all plans so far
UsedInPlans(name) ==
    LET Named(x) == x.item_name = name IN
    SumSeq([d \in 1..Len(daily_plans) |-> UsedBy(daily_plans[d].used_items, Named)])

\* the stock the run started with under that name, main and box together
StartingStock(name) ==
    LET Named(x) == x.item_name = name IN
    StockOf(main_inventory, Named) + StockOf(senior_box, Named)

(***************************************************************************)
(* C1 (as claimed).  Conservation over the month: for every item of a      *)
(* ledger, the servings_used of all records that name it, over the plans   *)
(* of all days, are at most the stock the run started with.  Records are   *)
(* counted by item name, the box and the main stock of a name together, so *)
(* that the count does not depend on the records' source tags.             *)
(***************************************************************************)
C1_ConservationOverMonth ==
    \A name \in EntryNames(main_inventory) \cup EntryNames(senior_box) :
        UsedInPlans(name) <= StartingStock(name)

(***************************************************************************)
(* C2 (as claimed).  Inventory threads across the days: the ledgers the    *)
(* generator of day d+1 allocates from are the ledgers as the generator of *)
(* day d left them.                                                        *)
(***************************************************************************)
C2_LedgerThreadsAcrossDays ==
    [][(pc = "loop" /\ day > 1 /\ pc' # "loop" /\ pc' # "done")
          => (main_copy' = main_copy /\ box_copy' = box_copy)]_vars

HasStock(ledger, cat) ==
    \E k \in 1..Len(ledger) :
        ledger[k].category = cat /\ ledger[k].servings_available > 0

(***************************************************************************)
(* C5 (as claimed).  Shortfall only after exhaustion: when a day's         *)
(* allocation is over and extra_needed holds a category, no entry of that  *)
(* category with positive stock is left in the main ledger, nor in the box *)
(* ledger of a senior.                                                     *)
(***************************************************************************)
C5_ShortfallOnlyAfterExhaustion ==
    pc = "return" =>
        \A cat \in DOMAIN extra_needed :
            extra_needed[cat] > 0 =>
                /\ ~HasStock(main_copy, cat)
                /\ IsSenior => ~HasStock(box_copy, cat)

\* every Salt/Pepper record comes before every Sugar record
SaltBeforeSugar(used) ==
    \A i, j \in 1..Len(used) :
        (NameIs(used[i], SaltPepper) /\ NameIs(used[j], Sugar)) => i < j

InStock(name) ==
    \E ledger \in {main_copy, box_copy} :
        \E k \in 1..Len(ledger) :
            /\ ledger[k].category = "misc"
            /\ NameIs(ledger[k], name)
            /\ ledger[k].servings_available > 0

\* the step about to be taken allocates a misc shortfall, with Salt/Pepper
\* and Sugar both in stock
MiscTopUpWithBoth ==
    /\ pc = "topup"
    /\ MEAL_CATEGORIES[cat_k] = "misc"
    /\ MEAL_REQUIREMENT("misc") - category_counts["misc"] > 0
    /\ InStock(SaltPepper)
    /\ InStock(Sugar)

(***************************************************************************)
(* C8 (as claimed).  Misc priority: when a day's misc shortfall is         *)
(* allocated with Salt/Pepper and Sugar both in stock, every Salt/Pepper   *)
(* record comes before every Sugar record in the day's used_items.         *)
(***************************************************************************)
C8_SaltBeforeSugarInUsedItems ==
    [][MiscTopUpWithBoth => SaltBeforeSugar(used_items')]_vars

(***************************************************************************)
(* C8 (amended).  When a day's misc shortfall is allocated with            *)
(* Salt/Pepper and Sugar both in stock, the records the misc top-up        *)
(* appends to used_items hold every Salt/Pepper record before every Sugar  *)
(* record; the records that were there before (those of the recipe's own   *)
(* ingredients and of the earlier categories) stay in front, unchanged.    *)
(***************************************************************************)
C8_SaltBeforeSugarInTopUp ==
    [][MiscTopUpWithBoth =>
          /\ Len(used_items') >= Len(used_items)
          /\ SubSeq(used_items', 1, Len(used_items)) = used_items
          /\ SaltBeforeSugar(SubSeq(used_items', Len(used_items) + 1,
                                    Len(used_items')))]_vars

\* a day whose recipe has no misc ingredient got both a Salt/Pepper and a
\* Sugar record from the misc top-up
C8_Witness ==
    /\ pc = "return"
    /\ recipe = RecipeA
    /\ \E i, j \in 1..Len(used_items) :
          /\ NameIs(used_items[i], SaltPepper)
          /\ NameIs(used_items[j], Sugar)
          /\ i < j

(***************************************************************************)
(* C9 (as claimed).  With a main ledger whose only stock is Rice (cereal,  *)
(* 1 serving) and the recipe whose only ingredient is "Rice 200g", the     *)
(* standard daily plan has foodbank_items = ["Rice 200g"], no user_items   *)
(* and exactly the record {Rice, cereal, 1, main} in used_items.           *)
(***************************************************************************)
C9_RiceWithQuantityIsFoodbankItem ==
    ( /\ pc = "return"
      /\ ~IsSenior
      /\ recipe = RecipeA
      /\ main_inventory = load_items(Rows(MainNames, <<0, 0, 0, 1>>)) )
    => /\ foodbank_items = <<IngredientsA>>
       /\ user_items = <<>>
       /\ used_items = <<AllocationRecord(Rice, "cereal", 1, "main")>>

(***************************************************************************)
(* Properties of the whole request.                                        *)
(***************************************************************************)
IsReport(r) == "daily_plans" \in DOMAIN r

IsError(r) == "error" \in DOMAIN r

\* the request was valid, every upstream file it needs is there and some
\* recipe passed the filters: nothing but stock can be short
SetupComplete ==
    /\ profile # None
    /\ {InventoryService, ReferencePath, get_recipe_file(profile_age)} \subseteq files
    /\ profile_age >= 60 => BoxPath \in files
    /\ filtered_recipes # <<>>

C12_EmptyFilterFailsFast ==
    (recipes # <<>> /\ filtered_recipes = <<>> /\ pc # "filter") =>
        /\ pc = "done"
        /\ IsError(response)
        /\ response.error = "No recipes match the provided filters"
        /\ ~IsReport(response)
        /\ daily_plans = <<>>
        /\ used_items = <<>>
        /\ main_copy = <<>>
        /\ box_copy = <<>>
        /\ senior_box = <<>>
        /\ main_inventory = load_items(excel_file.rows)

\* the filters ran on the catalog with stock in the ledger and kept nothing
C12_Witness ==
    /\ pc = "done"
    /\ recipes = Catalog
    /\ filtered_recipes = <<>>
    /\ \E k \in 1..Len(main_inventory) : main_inventory[k].servings_available > 0

\* the run ended because upstream data it needs is missing
DataUnavailable ==
    /\ pc = "done"
    /\ profile # None
    /\ \/ InventoryService \notin files
       \/ ReferencePath \notin files
       \/ get_recipe_file(profile_age) \notin files
       \/ BoxPath \notin files /\ profile_age >= 60 /\ filtered_recipes # <<>>

(***************************************************************************)
(* C13 (as claimed).  A run that ends because upstream data is missing     *)
(* (inventory export, reference table, recipe catalog or senior box file)  *)
(* ends with an error whose status is not the status of the "no matching   *)
(* recipes" outcome.                                                       *)
(***************************************************************************)
C13_DataUnavailableDistinctStatus ==
    DataUnavailable =>
        /\ IsError(response)
        /\ response.status # no_match_response.status

(***************************************************************************)
(* C14 (as claimed).  Request isolation under concurrency: in every        *)
(* interleaving of two requests, the main ledger a request holds is built  *)
(* from the inventory content that same request downloaded.                *)
(***************************************************************************)
C14_LedgerFromOwnFetch ==
    \A r \in RequestIds :
        requests[r].pc = "loaded" =>
            requests[r].main_inventory = load_items(requests[r].content)

\* the ingredient fragments of every recipe of the catalog
FragmentsOf ==
    [r \in {Catalog[k] : k \in 1..Len(Catalog)} |-> raw_ingredients_of(r.Ingredients)]

\* the recipe at position (d - 1) mod n of the filtered list
RoundRobin(d) == filtered_recipes[((d - 1) % Len(filtered_recipes)) + 1]

(***************************************************************************)
(* C15.  Round-robin day assignment: with n filtered recipes, the plan of  *)
(* every day d (and the recipe of the day being planned) is that of        *)
(* filtered_recipes[(d-1) mod n], whatever the inventory; so the plans of  *)
(* days d and d+n are of the same recipe.                                  *)
(***************************************************************************)
C15_RoundRobin ==
    /\ \A d \in 1..Len(daily_plans) :
          /\ daily_plans[d].day = d
          /\ daily_plans[d].title = RoundRobin(d).Title
          /\ daily_plans[d].ingredients = FragmentsOf[RoundRobin(d)]
          /\ d + Len(filtered_recipes) <= Len(daily_plans) =>
                /\ daily_plans[d + Len(filtered_recipes)].title = daily_plans[d].title
                /\ daily_plans[d + Len(filtered_recipes)].ingredients
                       = daily_plans[d].ingredients
    /\ pc \in {"ingredients", "topup", "return"} => recipe = RoundRobin(day)

\* a full month over three recipes: day 4 repeats day 1, day 2 does not
C15_Witness ==
    /\ Len(daily_plans) = Days
    /\ Len(filtered_recipes) = 3
    /\ daily_plans[4].title = daily_plans[1].title
    /\ daily_plans[2].title # daily_plans[1].title
    /\ daily_plans[Days].title = filtered_recipes[3].Title

(***************************************************************************)
(* C18.  Unresolved ingredients are never served from inventory: the step  *)
(* of the ingredient loop for a fragment whose stripped name resolves to   *)
(* no category appends the whole fragment to user_items and changes no     *)
(* ledger entry, no record, no fulfilled count and no foodbank item.       *)
(***************************************************************************)
C18_UnresolvedToUserItems ==
    [][(pc = "ingredients" /\ resolve_category(raw_ingredients[ing_k]) = NoCategory) =>
          /\ user_items' = Append(user_items, raw_ingredients[ing_k])
          /\ main_copy' = main_copy
          /\ box_copy' = box_copy
          /\ used_items' = used_items
          /\ category_counts' = category_counts
          /\ foodbank_items' = foodbank_items]_vars

\* Tofu (not in the reference table) went to user_items while the ledger
\* held stock, after Sugar was served
C18_Witness ==
    /\ pc = "topup"
    /\ cat_k = 1
    /\ recipe = RecipeB
    /\ user_items = <<Tofu>>
    /\ foodbank_items = <<Sugar>>
    /\ \E k \in 1..Len(main_copy) : main_copy[k].servings_available > 0

(***************************************************************************)
(* Properties of the recipe filter and of the category resolution.         *)
(***************************************************************************)
Levels == {"low", "moderate", "high"}

\* the band of a level
InBand(level, c) ==
    CASE level = "low" -> c <= 350
      [] level = "moderate" -> 350 < c /\ c <= 500
      [] level = "high" -> c > 500

\* the recipes whose calories are in the band of the level, in catalog order
RECURSIVE KeepInBand(_, _, _)
KeepInBand(catalog, cs, level) ==
    IF catalog = <<>> THEN <<>>
    ELSE IF InBand(level, Head(cs))
         THEN <<Head(catalog)>> \o KeepInBand(Tail(catalog), Tail(cs), level)
         ELSE KeepInBand(Tail(catalog), Tail(cs), level)

\* the body names an activity level and no diet
LevelOnly(data) ==
    /\ "physical" \in DOMAIN data
    /\ "activity_level" \in DOMAIN data.physical
    /\ data.physical.activity_level \in Levels
    /\ "cultural" \notin DOMAIN data

(***************************************************************************)
(* C16.  Activity-level calorie bands: filtered by level alone, a recipe   *)
(* of c calories is kept for low iff c <= 350, for moderate iff            *)
(* 350 < c <= 500, for high iff c > 500; every calorie value is kept by    *)
(* exactly one of the three levels.                                        *)
(***************************************************************************)
C16_CalorieBands ==
    /\ (pc = "called" /\ call.op = "filter_recipes" /\ LevelOnly(call.data)) =>
          call.result = KeepInBand(call.recipes, call.calories,
                                   call.data.physical.activity_level)
    /\ \A c \in CalorieValues :
          Cardinality({level \in Levels :
                         filter_recipes(<<CalorieRecipe(c)>>,
                                        [activity_level |-> level], None) # <<>>}) = 1

\* moderate on recipes of 350 and 500 calories kept the second only
C16_Witness ==
    /\ pc = "called"
    /\ call.op = "filter_recipes"
    /\ LevelOnly(call.data)
    /\ call.data.physical.activity_level = "moderate"
    /\ call.calories = <<350, 500>>
    /\ call.result = <<CalorieRecipe(500)>>

\* the body gives no activity level: no physical block, or one without the key
NoActivityLevel(data) ==
    \/ "physical" \notin DOMAIN data
    \/ "activity_level" \notin DOMAIN data.physical

(***************************************************************************)
(* C17 (as claimed).  Default activity level: for a body that gives no     *)
(* activity level the filter keeps exactly the recipes it keeps for the    *)
(* same body with activity level moderate.                                 *)
(***************************************************************************)
C17_DefaultActivityModerate ==
    (pc = "called" /\ call.op = "filter_recipes" /\ NoActivityLevel(call.data)) =>
        call.result = filter_recipes(call.recipes, [activity_level |-> "moderate"],
                                     Profile(call.data).cultural)

(***************************************************************************)
(* C19.  Idempotent, case-insensitive resolution: two resolutions of the   *)
(* same name, in the same or in different casing, give the same category   *)
(* (or no category both times), and leave both ledgers as they were.       *)
(***************************************************************************)
C19_IdempotentResolution ==
    (pc = "called" /\ call.op = "resolve_category"
                  /\ lower(call.first) = lower(call.second)) =>
        /\ call.categories[1] = call.categories[2]
        /\ main_copy = call.main_before
        /\ box_copy = call.box_before
        /\ main_copy = main_inventory
        /\ box_copy = senior_box

\* "Rice 200g" and "RICE 200G" both resolved to cereal
C19_Witness ==
    /\ pc = "called"
    /\ call.op = "resolve_category"
    /\ call.first = IngredientsA
    /\ call.second = upper(IngredientsA)
    /\ call.categories = <<"cereal", "cereal">>

(***************************************************************************)
(* C20 (as claimed).  Misc allocation falls through to the remaining misc  *)
(* stock: a misc allocation (allocate_category for misc on the main        *)
(* ledger, allocate_senior_misc on box and main) returns a positive        *)
(* remainder only when no misc entry of the ledgers it was given has       *)
(* positive stock left.                                                    *)
(***************************************************************************)
C20_MiscFallsThrough ==
    /\ (pc = "called" /\ call.op = "allocate_category" /\ call.category = "misc"
                      /\ call.remaining > 0)
           => ~HasStock(main_copy, "misc")
    /\ (pc = "called" /\ call.op = "allocate_senior_misc" /\ call.remaining > 0)
           => (~HasStock(main_copy, "misc") /\ ~HasStock(box_copy, "misc"))

(***************************************************************************)
(* Properties of the daily plan generators.                                *)
(***************************************************************************)
AnyItem(item) == TRUE

\* s is a and b merged, each in its own order
RECURSIVE IsMerge(_, _, _)
IsMerge(s, a, b) ==
    IF s = <<>> THEN a = <<>> /\ b = <<>>
    ELSE \/ a # <<>> /\ Head(a) = Head(s) /\ IsMerge(Tail(s), Tail(a), b)
         \/ b # <<>> /\ Head(b) = Head(s) /\ IsMerge(Tail(s), a, Tail(b))

\* the fragments handled so far are split between the two lists, in order
C21_Partition ==
    pc \in {"ingredients", "topup", "return"} =>
        /\ IsMerge(SubSeq(raw_ingredients, 1, ing_k - 1), foodbank_items, user_items)
        /\ Len(foodbank_items) + Len(user_items) = ing_k - 1
        /\ pc # "ingredients" => ing_k - 1 = Len(raw_ingredients)

\* the step for a resolved fragment: what left the ledgers is the one serving
\* asked for or nothing
C21_Step ==
    (pc = "ingredients" /\ resolve_category(raw_ingredients[ing_k]) # NoCategory) =>
        LET ing == raw_ingredients[ing_k]
            category == resolve_category(ing)
            served == Taken(main_copy, main_copy', AnyItem) + Taken(box_copy, box_copy', AnyItem)
        IN  /\ served \in {0, one_serving}
            /\ SumUsed(used_items') = SumUsed(used_items) + served
            /\ served = one_serving =>
                  /\ foodbank_items' = Append(foodbank_items, ing)
                  /\ user_items' = user_items
                  /\ category_counts' =
                         [category_counts EXCEPT ![category] = @ + one_serving]
            /\ served = 0 =>
                  /\ user_items' = Append(user_items, ing)
                  /\ foodbank_items' = foodbank_items
                  /\ category_counts' = category_counts

(***************************************************************************)
(* C21.  Per-ingredient classification: the step of the ingredient loop    *)
(* for a resolved fragment (standard and senior generator) asks for one    *)
(* serving; served, the fragment is appended to foodbank_items and the     *)
(* category's fulfilled count rises by exactly 1; not served, it is        *)
(* appended to user_items and no count changes.  Every fragment of the     *)
(* recipe ends up in exactly one of the two lists, in recipe order.        *)
(***************************************************************************)
C21_IngredientClassification == []C21_Partition /\ [][C21_Step]_vars

\* three days over the catalog: "Rice 200g" resolved and went unserved with
\* Rice in stock, "Sugar" was served before "Tofu", "RICE" before "Tea"
C21_Witness ==
    /\ Len(daily_plans) = 3
    /\ Len(filtered_recipes) = 3
    /\ daily_plans[1].user_items = <<IngredientsA>>
    /\ daily_plans[2].foodbank_items = <<Sugar>>
    /\ daily_plans[2].user_items = <<Tofu>>
    /\ daily_plans[3].foodbank_items = <<upper(Rice)>>
    /\ daily_plans[3].user_items = <<Tea>>

\* the entries a top-up of the category can draw from: all of the category,
\* for misc those named in MISC_PRIORITY
TopUpStock(ledger, cat) ==
    LET Drawn(item) ==
            /\ item.category = cat
            /\ cat = "misc" =>
                  \E k \in 1..Len(MISC_PRIORITY) : NameIs(item, MISC_PRIORITY[k])
    IN  StockOf(ledger, Drawn)

\* the step of the top-up loop for one category
C22_Step ==
    pc = "topup" =>
        LET cat == MEAL_CATEGORIES[cat_k]
            required == MEAL_REQUIREMENT(cat) * one_serving
            shortfall == IF required > category_counts[cat]
                         THEN required - category_counts[cat] ELSE 0
            OfCat(item) == item.category = cat
            served == Taken(main_copy, main_copy', AnyItem)
                          + Taken(box_copy, box_copy', AnyItem)
            added == SubSeq(used_items', Len(used_items) + 1, Len(used_items'))
        IN  /\ SubSeq(used_items', 1, Len(used_items)) = used_items
            /\ \A k \in 1..Len(added) : added[k].category = cat
            /\ SumUsed(added) = served
            /\ served = Taken(main_copy, main_copy', OfCat)
                             + Taken(box_copy, box_copy', OfCat)
            /\ served = Min(shortfall, TopUpStock(main_copy, cat)
                                           + TopUpStock(box_copy, cat))
            /\ shortfall = 0 => added = <<>>
            /\ category_counts' = [category_counts EXCEPT ![cat] = @ + served]
            /\ cat \in DOMAIN extra_needed' <=> required - category_counts'[cat] > 0
            /\ cat \in DOMAIN extra_needed' =>
                  extra_needed'[cat] = required - category_counts'[cat]
            /\ \A c \in Categories \ {cat} :
                  /\ c \in DOMAIN extra_needed' <=> c \in DOMAIN extra_needed
                  /\ c \in DOMAIN extra_needed => extra_needed'[c] = extra_needed[c]

\* the plan about to be returned: extra_needed holds what is still missing,
\* every value at least lowest
C22_ExtraNeeded(lowest) ==
    pc = "return" =>
        /\ DOMAIN extra_needed \subseteq Categories
        /\ "dairy" \notin DOMAIN extra_needed
        /\ \A c \in Categories :
              LET required == MEAL_REQUIREMENT(c) * one_serving IN
              /\ c \in DOMAIN extra_needed <=> required - category_counts[c] > 0
              /\ c \in DOMAIN extra_needed =>
                    /\ extra_needed[c] = required - category_counts[c]
                    /\ lowest <= extra_needed[c]
                    /\ extra_needed[c] <= required

(***************************************************************************)
(* C22 (as claimed).  Category top-up and extra_needed: for each category  *)
(* the top-up serves min(shortfall, stock it can draw from) with           *)
(* shortfall = max(0, required - fulfilled), all of it in records of that  *)
(* category appended to used_items, and nothing when the shortfall is 0;   *)
(* extra_needed holds the category exactly when required - fulfilled is    *)
(* positive after the top-up, with that difference as value, so            *)
(* 1 <= extra_needed[c] <= required(c) in servings, and dairy never        *)
(* appears.                                                                *)
(***************************************************************************)
C22_TopUpAndExtraNeeded == []C22_ExtraNeeded(one_serving) /\ [][C22_Step]_vars

(***************************************************************************)
(* C22 (amended).  The same, with 0 < extra_needed[c] <= required(c): on   *)
(* stock that is not a whole number of servings the value can be less      *)
(* than one serving.                                                       *)
(***************************************************************************)
C22_TopUpAndPositiveExtraNeeded == []C22_ExtraNeeded(1) /\ [][C22_Step]_vars

\* on a ledger with half a serving of Rice and a serving of misc items the
\* top-ups served both, leaving half a serving of cereal and one of misc
\* needed
C22_Witness ==
    /\ pc = "return"
    /\ unit = 2
    /\ recipe = RecipeA
    /\ Len(used_items) >= 2
    /\ used_items[1] = AllocationRecord(Rice, "cereal", 1, "main")
    /\ used_items[2].category = "misc"
    /\ DOMAIN extra_needed = {"fruit_veg", "cereal", "protein", "oil", "misc"}
    /\ extra_needed["cereal"] = 1
    /\ extra_needed["misc"] = one_serving
    /\ extra_needed["fruit_veg"] = 2 * one_serving

(***************************************************************************)
(* Properties of the senior allocation calls.                              *)
(***************************************************************************)
\* the entries the last call could draw from: of its category, and for the
\* call for an item of its name
WantedBy(c, item) ==
    /\ item.category = c.category
    /\ c.op = "allocate_senior_item" => NameIs(item, c.item_name)

(***************************************************************************)
(* C23.  Empty box falls back to main without touching box: after a senior *)
(* call for a category (or for an item) whose box entries held no stock    *)
(* before the call, every record has source main, the box ledger is as it  *)
(* was and the main ledger has lost exactly the servings of the records,   *)
(* which is the need less the remainder; after a call whose box entries    *)
(* held at least the need, the main ledger is as it was.                   *)
(***************************************************************************)
C23_EmptyBoxFallsBackToMain ==
    (pc = "called" /\ call.op \in {"allocate_senior_category", "allocate_senior_item"}) =>
        LET Wanted(item) == WantedBy(call, item) IN
        /\ StockOf(call.box_before, Wanted) = 0 =>
              /\ \A k \in 1..Len(call.used) : call.used[k].source = "main"
              /\ box_copy = call.box_before
              /\ Taken(call.main_before, main_copy, AnyItem) = SumUsed(call.used)
              /\ Taken(call.main_before, main_copy, Wanted) = SumUsed(call.used)
              /\ SumUsed(call.used) = call.needed - call.remaining
        /\ StockOf(call.box_before, Wanted) >= call.needed =>
              /\ main_copy = call.main_before
              /\ call.remaining = 0

\* box Milk 0, main Milk 2, dairy needed 1: one record with source main
C23_Witness ==
    /\ pc = "called"
    /\ call.op = "allocate_senior_category"
    /\ call.category = "dairy"
    /\ call.needed = 1
    /\ \E k \in 1..Len(call.box_before) :
          /\ call.box_before[k].item_name = Milk
          /\ call.box_before[k].servings_available = 0
    /\ \E k \in 1..Len(call.main_before) :
          /\ call.main_before[k].item_name = Milk
          /\ call.main_before[k].servings_available = 2
          /\ main_copy[k].servings_available = 1
    /\ call.used = <<AllocationRecord(Milk, "dairy", 1, "main")>>
    /\ box_copy = call.box_before

(***************************************************************************)
(* Properties of the senior box.                                           *)
(***************************************************************************)
\* the cycle of the months 1..12
CycleOfMonth == <<1, 2, 3, 1, 2, 3, 1, 2, 3, 1, 2, 3>>

\* the month the request asks for; none or 0 is month 1 (lines 30, 500)
RequestedMonth ==
    IF "month" \in DOMAIN request /\ request.month # 0 THEN request.month ELSE 1

NoBoxRecord(used) == \A k \in 1..Len(used) : used[k].source # "box"

(***************************************************************************)
(* C24.  Senior box cycle: the cycle of month m is ((m-1) mod 3) + 1, in   *)
(* {1,2,3} for every month 1..12 and the same for m and m+3; a box ledger  *)
(* is loaded only for age >= 60; the report's senior_box_cycle is the      *)
(* cycle of the requested month for age >= 60 and none (0) for age < 60,   *)
(* and for age < 60 no allocation record has source box.                   *)
(***************************************************************************)
C24_SeniorBoxCycle ==
    /\ \A m \in 1..12 :
          /\ get_senior_box_cycle(m) = CycleOfMonth[m]
          /\ get_senior_box_cycle(m) \in {1, 2, 3}
          /\ m + 3 <= 12 => get_senior_box_cycle(m + 3) = get_senior_box_cycle(m)
    /\ profile_age < 60 =>
          /\ senior_box = <<>>
          /\ box_copy = <<>>
          /\ NoBoxRecord(used_items)
    /\ (pc = "done" /\ IsReport(response)) =>
          /\ response.senior_box_cycle =
                 IF profile_age >= 60 THEN CycleOfMonth[RequestedMonth] ELSE 0
          /\ response.month = RequestedMonth
          /\ profile_age < 60 =>
                \A d \in 1..Days : NoBoxRecord(response.daily_plans[d].used_items)

\* a senior's report for month 5: cycle 2, with servings drawn from the box
C24_Witness ==
    /\ pc = "done"
    /\ IsReport(response)
    /\ profile_age = 65
    /\ RequestedMonth = 5
    /\ response.senior_box_cycle = 2
    /\ \E k \in 1..Len(response.daily_plans[1].used_items) :
          response.daily_plans[1].used_items[k].source = "box"

(***************************************************************************)
(* Properties of the nutrition field.                                      *)
(***************************************************************************)
\* the mapping a recipe's Nutrition value holds or decodes to, if any
HoldsMapping(r) ==
    \/ r.Nutrition.type = "dict"
    \/ r.Nutrition.type = "str" /\ is_dict_literal(r.Nutrition.text)

MappingOf(r) ==
    IF r.Nutrition.type = "dict" THEN r.Nutrition
    ELSE [type |-> "dict",
          value |-> [calories |-> ParseInt(literal_body(r.Nutrition.text))]]

(***************************************************************************)
(* C25 (as claimed).  Nutrition fallback: whatever the Nutrition value of  *)
(* the recipe of a day holds (a mapping, a text that decodes to a mapping, *)
(* a text that decodes to something that is no mapping, an undecodable     *)
(* text, an empty cell), the plan of the day is produced and its nutrition *)
(* field is a mapping: the recipe's mapping or the zero record; the run    *)
(* ends with the report of all days.                                       *)
(***************************************************************************)
C25_NutritionFallback ==
    /\ \A d \in 1..Len(daily_plans) :
          LET n == daily_plans[d].nutrition
              r == RoundRobin(d)
          IN  /\ n.type = "dict"
              /\ \/ n = ZeroNutrition
                 \/ HoldsMapping(r) /\ n = MappingOf(r)
    /\ pc = "done" => (IsReport(response) /\ Len(response.daily_plans) = Days)

(***************************************************************************)
(* Properties of every allocation call.                                    *)
(***************************************************************************)
\* the entries of the ledger that no record of used names are as before
UnnamedUnchanged(before, after, used) ==
    /\ Len(after) = Len(before)
    /\ \A k \in 1..Len(before) :
          (\A j \in 1..Len(used) : used[j].item_name # before[k].item_name)
              => after[k] = before[k]

(***************************************************************************)
(* C26.  Allocation accounting: after every allocation call (specific      *)
(* item, category, senior item, senior category, senior misc) with         *)
(* needed >= 0, the servings_used of the returned records plus the         *)
(* returned remainder are needed, 0 <= remainder <= needed, what the       *)
(* ledgers passed in have lost in all is the servings_used of the records, *)
(* and every entry that no record names is unchanged.                      *)
(***************************************************************************)
C26_AllocationAccounting ==
    (pc = "called" /\ call.needed >= 0) =>
        /\ SumUsed(call.used) + call.remaining = call.needed
        /\ 0 <= call.remaining
        /\ call.remaining <= call.needed
        /\ Taken(call.main_before, main_copy, AnyItem)
               + Taken(call.box_before, box_copy, AnyItem) = SumUsed(call.used)
        /\ UnnamedUnchanged(call.main_before, main_copy, call.used)
        /\ UnnamedUnchanged(call.box_before, box_copy, call.used)
        /\ call.op \notin SeniorOps => box_copy = call.box_before

\* a senior call drew from the box and from main and still returned a
\* remainder
C26_Witness ==
    /\ pc = "called"
    /\ call.op \in SeniorOps
    /\ call.remaining > 0
    /\ Len(call.used) >= 2
    /\ Taken(call.box_before, box_copy, AnyItem) > 0
    /\ Taken(call.main_before, main_copy, AnyItem) > 0
    /\ \E k \in 1..Len(main_copy) :
          main_copy[k] = call.main_before[k] /\ main_copy[k].servings_available > 0

====
